---- MODULE Spec2Model ----
(***************************************************************************)
(* Model of lockout-verify (src/verifier.py): Merkle root over the laws    *)
(* of a codex and its comparison with a published root.                    *)
(*                                                                         *)
(* Text values (str) are sequences of code points, byte strings (bytes)    *)
(* are sequences of 0..255, and hex strings are sequences of one-character *)
(* strings, so that encode / hex / fromhex are real conversions.           *)
(*                                                                         *)
(* Keccak-256 is modelled as a collision-free function: the digest of a    *)
(* byte string is the byte string itself between the two bytes 0xFE and    *)
(* 0xFF, which never occur in UTF-8 text.  Distinct inputs therefore have  *)
(* distinct digests, and a concatenation of digests parses uniquely.       *)
(***************************************************************************)
EXTENDS Integers, Sequences, FiniteSets, TLC

\* ------------------------------------------------------------------ bounds
MaxLaws == 3      \* laws in a codex given to verify_against_txs
MaxDocs == 4      \* documents given to build_merkle_leaves directly
MaxTxs  == 1      \* length of tx_hashes

\* ------------------------------------------------------------ input sets
\* "A", "AB" and "é" (U+00E9, two bytes in UTF-8)
Docs == {<<65>>, <<65, 66>>, <<233>>}
\* texts a document may be changed to: also "" and "B"
ChangedDocs == Docs \cup {<<>>, <<66>>}
TxIds == {"0xce90", "0xb436"}

RECURSIVE SeqsUpTo(_, _)
SeqsUpTo(S, n) ==
    IF n = 0 THEN {<<>>}
    ELSE LET shorter == SeqsUpTo(S, n - 1)
         IN  shorter \cup {Append(s, x) : s \in {t \in shorter : Len(t) = n - 1}, x \in S}

\* --------------------------------------------------------------- hashing
HexLower == <<"0","1","2","3","4","5","6","7","8","9","a","b","c","d","e","f">>
HexUpper == <<"0","1","2","3","4","5","6","7","8","9","A","B","C","D","E","F">>

\* HexBytes.hex(): "0x" followed by two lowercase digits per byte
RECURSIVE HexDigits(_)
HexDigits(bytes) ==
    IF bytes = <<>> THEN <<>>
    ELSE <<HexLower[(Head(bytes) \div 16) + 1], HexLower[(Head(bytes) % 16) + 1]>>
         \o HexDigits(Tail(bytes))

hex(bytes) == <<"0", "x">> \o HexDigits(bytes)

\* value of one hex digit; bytes.fromhex accepts both letter cases
HexVal(c) == CHOOSE v \in 0..15 : HexLower[v + 1] = c \/ HexUpper[v + 1] = c

\* bytes.fromhex(s)
RECURSIVE fromhex(_)
fromhex(s) ==
    IF Len(s) < 2 THEN <<>>
    ELSE <<HexVal(s[1]) * 16 + HexVal(s[2])>> \o fromhex(SubSeq(s, 3, Len(s)))

\* s[2:]
StripPrefix(s) == SubSeq(s, 3, Len(s))

\* Web3.keccak(data): collision-free digest
Web3_keccak(data) == <<254>> \o data \o <<255>>

keccak256(data) == hex(Web3_keccak(data))

\* str.encode('utf-8') for code points below U+0800
RECURSIVE encode(_)
encode(doc) ==
    IF doc = <<>> THEN <<>>
    ELSE (IF Head(doc) < 128 THEN <<Head(doc)>>
          ELSE <<192 + (Head(doc) \div 64), 128 + (Head(doc) % 64)>>)
         \o encode(Tail(doc))

\* ---------------------------------------------------------------- sorting
\* str.__lt__: lexicographic by code point, a proper prefix sorts first
RECURSIVE StrLess(_, _)
StrLess(a, b) ==
    IF b = <<>> THEN FALSE
    ELSE IF a = <<>> THEN TRUE
    ELSE IF Head(a) # Head(b) THEN Head(a) < Head(b)
    ELSE StrLess(Tail(a), Tail(b))

RECURSIVE Insert(_, _)
Insert(d, s) ==
    IF s = <<>> THEN <<d>>
    ELSE IF StrLess(d, Head(s)) THEN <<d>> \o s
    ELSE <<Head(s)>> \o Insert(d, Tail(s))

RECURSIVE InsertionSort(_)
InsertionSort(docs) ==
    IF docs = <<>> THEN <<>>
    ELSE Insert(docs[Len(docs)], InsertionSort(SubSeq(docs, 1, Len(docs) - 1)))

\* mutant: the documents are hashed in their input order
sorted_Unsorted(docs) == docs

sorted(docs) == InsertionSort(docs)

\* ------------------------------------------------------- build_merkle_leaves
build_merkle_leaves(docs) ==
    LET s == sorted(docs)
    IN  [i \in 1..Len(s) |-> keccak256(encode(s[i]))]

\* --------------------------------------------------------- build_merkle_root
\* mutant: the unpaired element is hashed against itself
Combined_SelfPair(cur, i) ==
    LET left == fromhex(StripPrefix(cur[i + 1]))
    IN  IF i + 1 < Len(cur)
        THEN left \o fromhex(StripPrefix(cur[i + 2]))
        ELSE left \o left

\* mutant: the right element is put before the left one
Combined_Swapped(cur, i) ==
    LET left == fromhex(StripPrefix(cur[i + 1]))
    IN  IF i + 1 < Len(cur)
        THEN fromhex(StripPrefix(cur[i + 2])) \o left
        ELSE left

\* the bytes hashed for the element at 0-based index i of the level
Combined(cur, i) ==
    LET left == fromhex(StripPrefix(cur[i + 1]))
    IN  IF i + 1 < Len(cur)
        THEN left \o fromhex(StripPrefix(cur[i + 2]))
        ELSE left

\* mutant: the loop stops before a final unpaired element
RangeStop_DropOdd(cur) == Len(cur) - 1

\* range(0, len(current), 2)
RangeStop(cur) == Len(cur)

RECURSIVE ForLoop(_, _)
ForLoop(cur, i) ==
    IF i >= RangeStop(cur) THEN <<>>
    ELSE <<keccak256(Combined(cur, i))>> \o ForLoop(cur, i + 2)

\* one pass of the while body
next_level(cur) == ForLoop(cur, 0)

RECURSIVE WhileLoop(_)
WhileLoop(cur) ==
    IF Len(cur) > 1 THEN WhileLoop(next_level(cur)) ELSE cur[1]

ValueError == <<"ValueError: No leaves">>

\* the value returned, or ValueError when the call raises
build_merkle_root(lvs) ==
    IF lvs = <<>> THEN ValueError ELSE WhileLoop(lvs)

\* ------------------------------------------------------------------ state
VARIABLES
    pc,             \* position in verify_against_txs / build_merkle_root
    laws,           \* documents read from the codex
    expected_root,  \* parameter
    tx_hashes,      \* parameter
    leaves,         \* argument of build_merkle_root
    current,        \* level being reduced
    rounds,         \* completed iterations of the while loop
    computed_root,
    txi,            \* index of the tx loop
    epoch,
    result,         \* "none" until verify_against_txs returns
    raised          \* exception propagating to the caller, "" if none

vars == <<pc, laws, expected_root, tx_hashes, leaves, current, rounds,
          computed_root, txi, epoch, result, raised>>

EPOCH == "EPOCH_2025-10-15-154540"

ToUpper(s) ==
    [i \in 1..Len(s) |->
        IF \E v \in 0..15 : HexLower[v + 1] = s[i] THEN HexUpper[HexVal(s[i]) + 1] ELSE s[i]]

\* a published root that is no root of any law set: the digest of b''
OtherRoot == keccak256(<<>>)

\* expected roots tried against a codex: the true root as printed, in upper
\* case, without prefix, and a different 32-byte value
ExpectedRoots(ds) ==
    IF ds = <<>> THEN {OtherRoot}
    ELSE LET r == build_merkle_root(build_merkle_leaves(ds))
         IN  {r, <<"0", "x">> \o ToUpper(StripPrefix(r)), StripPrefix(r), OtherRoot}

Locals ==
    /\ leaves = <<>>
    /\ current = <<>>
    /\ rounds = 0
    /\ computed_root = <<>>
    /\ txi = 0
    /\ epoch = ""
    /\ result = "none"
    /\ raised = ""

\* a call of verify_against_txs, after the codex was read and split
Init ==
    /\ pc = "leaves"
    /\ laws \in SeqsUpTo(Docs, MaxLaws)
    /\ expected_root \in ExpectedRoots(laws)
    /\ tx_hashes \in SeqsUpTo(TxIds, MaxTxs)
    /\ Locals

\* a call of build_merkle_root(build_merkle_leaves(docs)) on its own
InitBuild ==
    /\ pc = "leaves"
    /\ laws \in SeqsUpTo(Docs, MaxDocs)
    /\ expected_root = OtherRoot
    /\ tx_hashes = <<>>
    /\ Locals

\* ---------------------------------------------------------------- actions
\* mutant: an empty document list is rejected before any leaf is built
CallLeaves_Raises ==
    /\ pc = "leaves"
    /\ IF laws = <<>>
       THEN /\ raised' = "EmptyInputError"
            /\ pc' = "error"
            /\ UNCHANGED leaves
       ELSE /\ leaves' = build_merkle_leaves(laws)
            /\ pc' = "root_entry"
            /\ UNCHANGED raised
    /\ UNCHANGED <<laws, expected_root, tx_hashes, current, rounds,
                   computed_root, txi, epoch, result>>

\* line 38, inner call
CallLeaves ==
    /\ pc = "leaves"
    /\ leaves' = build_merkle_leaves(laws)
    /\ pc' = "root_entry"
    /\ UNCHANGED <<laws, expected_root, tx_hashes, current, rounds,
                   computed_root, txi, epoch, result, raised>>

\* mutant: an empty leaf list is reduced to an empty root
RootEntry_NoCheck ==
    /\ pc = "root_entry"
    /\ IF leaves = <<>>
       THEN /\ pc' = "compare"
            /\ UNCHANGED current
       ELSE /\ pc' = "loop"
            /\ current' = leaves
    /\ UNCHANGED <<laws, expected_root, tx_hashes, leaves, rounds,
                   computed_root, txi, epoch, result, raised>>

\* mutant: the loop body runs once before the length is tested
RootEntry_DoWhile ==
    /\ pc = "root_entry"
    /\ IF leaves = <<>>
       THEN /\ raised' = ValueError[1]
            /\ pc' = "error"
            /\ UNCHANGED <<current, rounds>>
       ELSE /\ current' = next_level(leaves)
            /\ rounds' = 1
            /\ pc' = "loop"
            /\ UNCHANGED raised
    /\ UNCHANGED <<laws, expected_root, tx_hashes, leaves,
                   computed_root, txi, epoch, result>>

\* lines 15-17
RootEntry ==
    /\ pc = "root_entry"
    /\ IF leaves = <<>>
       THEN /\ raised' = ValueError[1]
            /\ pc' = "error"
            /\ UNCHANGED current
       ELSE /\ current' = leaves
            /\ pc' = "loop"
            /\ UNCHANGED raised
    /\ UNCHANGED <<laws, expected_root, tx_hashes, leaves, rounds,
                   computed_root, txi, epoch, result>>

\* lines 18-28, one iteration
Round ==
    /\ pc = "loop"
    /\ Len(current) > 1
    /\ current' = next_level(current)
    /\ rounds' = rounds + 1
    /\ UNCHANGED <<pc, laws, expected_root, tx_hashes, leaves,
                   computed_root, txi, epoch, result, raised>>

\* line 29 and the assignment of line 38
Return ==
    /\ pc = "loop"
    /\ ~(Len(current) > 1)
    /\ computed_root' = current[1]
    /\ pc' = "compare"
    /\ UNCHANGED <<laws, expected_root, tx_hashes, leaves, current, rounds,
                   txi, epoch, result, raised>>

\* mutant: the test of line 41 is inverted
Compare_Inverted ==
    /\ pc = "compare"
    /\ IF computed_root = expected_root
       THEN /\ result' = "False"
            /\ pc' = "done"
       ELSE /\ pc' = "txs"
            /\ UNCHANGED result
    /\ UNCHANGED <<laws, expected_root, tx_hashes, leaves, current, rounds,
                   computed_root, txi, epoch, raised>>

\* lines 41-43
Compare ==
    /\ pc = "compare"
    /\ IF computed_root # expected_root
       THEN /\ result' = "False"
            /\ pc' = "done"
       ELSE /\ pc' = "txs"
            /\ UNCHANGED result
    /\ UNCHANGED <<laws, expected_root, tx_hashes, leaves, current, rounds,
                   computed_root, txi, epoch, raised>>

\* lines 47-49, one iteration: the payload check is only printed
TxLoop ==
    /\ pc = "txs"
    /\ txi < Len(tx_hashes)
    /\ txi' = txi + 1
    /\ UNCHANGED <<pc, laws, expected_root, tx_hashes, leaves, current, rounds,
                   computed_root, epoch, result, raised>>

\* mutant: the attestation also needs a transaction to have been listed
Attest_TxGated ==
    /\ pc = "txs"
    /\ txi = Len(tx_hashes)
    /\ epoch' = EPOCH
    /\ result' = IF computed_root = expected_root /\ tx_hashes # <<>>
                 THEN "True" ELSE "False"
    /\ pc' = "done"
    /\ UNCHANGED <<laws, expected_root, tx_hashes, leaves, current, rounds,
                   computed_root, txi, raised>>

\* lines 52-56
Attest ==
    /\ pc = "txs"
    /\ txi = Len(tx_hashes)
    /\ epoch' = EPOCH
    /\ result' = IF computed_root = expected_root THEN "True" ELSE "False"
    /\ pc' = "done"
    /\ UNCHANGED <<laws, expected_root, tx_hashes, leaves, current, rounds,
                   computed_root, txi, raised>>

Next ==
    \/ CallLeaves
    \/ RootEntry
    \/ Round
    \/ Return
    \/ Compare
    \/ TxLoop
    \/ Attest

NextBuild ==
    \/ CallLeaves
    \/ RootEntry
    \/ Round
    \/ Return

Spec == Init /\ [][Next]_vars

BuildSpec == InitBuild /\ [][NextBuild]_vars

TypeOK ==
    /\ pc \in {"leaves", "root_entry", "loop", "compare", "txs", "done", "error"}
    /\ result \in {"none", "True", "False"}
    /\ rounds \in Nat
    /\ txi \in 0..Len(tx_hashes)

\* ----------------------------------------------------------------- helpers
\* raw bytes of a digest given as 0x-prefixed hex text
Raw(x) == fromhex(StripPrefix(x))

\* the 32-byte value a hex text denotes, with or without 0x, in any case
Denote(s) ==
    IF Len(s) >= 2 /\ s[1] = "0" /\ s[2] \in {"x", "X"}
    THEN fromhex(StripPrefix(s))
    ELSE fromhex(s)

MerkleRootOf(ds) == build_merkle_root(build_merkle_leaves(ds))

Permuted(ds) ==
    {[i \in 1..Len(ds) |-> ds[p[i]]] : p \in Permutations(1..Len(ds))}

ReplaceAt(ds, i, d) == [ds EXCEPT ![i] = d]

RemoveAt(ds, i) == SubSeq(ds, 1, i - 1) \o SubSeq(ds, i + 1, Len(ds))

CeilDiv(a, b) == (a + b - 1) \div b

RECURSIVE Pow2(_)
Pow2(k) == IF k = 0 THEN 1 ELSE 2 * Pow2(k - 1)

CeilLog2(n) == CHOOSE k \in 0..n : Pow2(k) >= n /\ (k = 0 \/ Pow2(k - 1) < n)

\* ------------------------------------------------------------------ claims

\* C1: for three leaves [a, b, c] the root returned by build_merkle_root is
\* hash(hash(a||b) || hash(c||c)): the unpaired element of an odd level is
\* hashed against itself.
C1_SelfPairing ==
    (pc = "compare" /\ Len(leaves) = 3) =>
        computed_root =
            keccak256(Raw(keccak256(Raw(leaves[1]) \o Raw(leaves[2])))
                      \o Raw(keccak256(Raw(leaves[3]) \o Raw(leaves[3]))))

\* C2 as stated: on an empty document sequence neither build_merkle_leaves
\* nor build_merkle_root returns a value; the call fails in the first of them.
C2_BothFail ==
    (laws = <<>>) => pc \in {"leaves", "error"}

\* C2 amended: build_merkle_root raises on an empty leaf sequence and never
\* returns a value for it, while build_merkle_leaves returns the empty leaf
\* list for an empty document sequence.
C2_RootRejectsEmpty ==
    /\ (laws = <<>> /\ pc # "leaves") =>
            (leaves = <<>> /\ pc \in {"root_entry", "error"})
    /\ (pc = "error") => (leaves = <<>> /\ raised = ValueError[1] /\ computed_root = <<>>)
    /\ (pc \notin {"leaves", "root_entry", "error"}) => leaves # <<>>

C2_Witness ==
    laws = <<>> /\ leaves = <<>> /\ pc = "error" /\ raised = ValueError[1]

\* C3 as stated: the run reports a match exactly when expected_root and the
\* computed root denote the same value, whatever the letter case and whether
\* or not the 0x prefix is present.
C3_NormalizedMatch ==
    (pc = "done") =>
        (result = "True" <=> Denote(expected_root) = Denote(computed_root))

\* C3 amended: the run reports a match exactly when expected_root denotes the
\* same value as the computed root and is written as the computed root is,
\* in lowercase with the 0x prefix; every other spelling is a mismatch.
C3_ExactMatch ==
    (pc = "done") =>
        (result = "True" <=>
            /\ Denote(expected_root) = Denote(computed_root)
            /\ expected_root = hex(Denote(expected_root)))

C3_Witness ==
    /\ pc = "done"
    /\ result = "False"
    /\ expected_root # computed_root
    /\ Denote(expected_root) = Denote(computed_root)

\* C4: build_merkle_leaves and the root built from its leaves are the same
\* for every permutation of the document sequence.
C4_OrderInvariant ==
    (pc = "compare") =>
        \A p \in Permuted(laws) :
            /\ build_merkle_leaves(p) = leaves
            /\ build_merkle_root(build_merkle_leaves(p)) = computed_root

C4_Witness ==
    /\ pc = "compare"
    /\ Len(laws) >= 3
    /\ StrLess(laws[3], laws[1])
    /\ StrLess(laws[1], laws[2])

\* C5: the outcome of a completed run is true iff the computed root equals
\* the expected root; it is a function of the documents and the expected
\* root alone, whatever tx_hashes holds, and the epoch is only recorded.
C5_AttestIffMatch ==
    (pc = "done") =>
        /\ result = (IF MerkleRootOf(laws) = expected_root THEN "True" ELSE "False")
        /\ (result = "True") => (epoch = EPOCH /\ txi = Len(tx_hashes))

C5_Witness ==
    pc = "done" /\ result = "True" /\ tx_hashes = <<>> /\ Len(laws) = 2

\* C6: for a single leaf [x] build_merkle_root returns x itself after zero
\* iterations of the reduction loop.
C6_SingleLeaf ==
    (pc = "compare" /\ Len(leaves) = 1) =>
        (computed_root = leaves[1] /\ rounds = 0 /\ current = leaves)

C6_Witness ==
    pc = "compare" /\ Len(leaves) = 1 /\ computed_root = leaves[1]

\* C7: for n >= 1 leaves the reduction loop ends with exactly one element
\* after exactly ceil(log2(n)) iterations; each iteration turns a level of
\* m > 1 elements into one of ceil(m/2) elements, so no level is empty.
C7_LevelSizes ==
    (pc \in {"loop", "compare"}) =>
        /\ Len(current) >= 1
        /\ Len(current) = CeilDiv(Len(leaves), Pow2(rounds))
        /\ (pc = "compare") =>
                (Len(current) = 1 /\ rounds = CeilLog2(Len(leaves)))

C7_Rounds ==
    /\ []C7_LevelSizes
    /\ [][(pc = "loop") =>
            \/ /\ Len(current) > 1
               /\ pc' = "loop"
               /\ rounds' = rounds + 1
               /\ Len(current') = CeilDiv(Len(current), 2)
               /\ Len(current') < Len(current)
            \/ /\ Len(current) = 1
               /\ pc' = "compare"
               /\ rounds' = rounds]_vars

C7_Witness ==
    pc = "compare" /\ Len(leaves) = 3 /\ rounds = 2

\* C8: with a collision-free hash, replacing one document by a different
\* text, adding a document or removing one changes the root.
C8_Sensitivity ==
    (pc = "compare") =>
        /\ \A i \in 1..Len(laws) : \A d \in ChangedDocs \ {laws[i]} :
                MerkleRootOf(ReplaceAt(laws, i, d)) # computed_root
        /\ \A d \in ChangedDocs :
                MerkleRootOf(Append(laws, d)) # computed_root
        /\ \A i \in 1..Len(laws) :
                MerkleRootOf(RemoveAt(laws, i)) # computed_root

C8_Witness ==
    pc = "compare" /\ Len(laws) = 3 /\ computed_root = MerkleRootOf(laws)

\* C9: a verification run on zero documents aborts with an error raised to
\* the caller and never produces an outcome, in particular not False.
C9_EmptyAborts ==
    (laws = <<>>) =>
        /\ result = "none"
        /\ pc \in {"leaves", "root_entry", "error"}
        /\ (pc = "error") => (raised # "")

C9_Witness ==
    laws = <<>> /\ pc = "error" /\ raised # "" /\ result = "none"

\* C10: in every reduction round element k of the next level is
\* hash(raw(level[2k]) || raw(level[2k+1])) for every complete pair, left
\* before right, over raw bytes; for two leaves [L1, L2] the root is
\* hash(raw(L1) || raw(L2)), which is not hash(raw(L2) || raw(L1)) when
\* L1 # L2.
C10_TwoLeaves ==
    (pc = "compare" /\ Len(leaves) = 2) =>
        /\ computed_root = keccak256(Raw(leaves[1]) \o Raw(leaves[2]))
        /\ (leaves[1] # leaves[2]) =>
                computed_root # keccak256(Raw(leaves[2]) \o Raw(leaves[1]))

C10_LeftToRight ==
    /\ []C10_TwoLeaves
    /\ [][(rounds' # rounds) =>
            \A k \in 0..Len(current) :
                (2 * k + 1 < Len(current)) =>
                    /\ k + 1 <= Len(current')
                    /\ current'[k + 1] =
                         keccak256(Raw(current[2 * k + 1]) \o Raw(current[2 * k + 2]))]_vars

C10_Witness ==
    /\ pc = "compare"
    /\ Len(leaves) = 4
    /\ leaves[1] # leaves[2]
    /\ leaves[3] # leaves[4]
====
